---- MODULE Spec2Model ----
(***************************************************************************)
(* Model of Source/Scene/ClippingPlaneCollection.js: the plane sequence,   *)
(* the dirty tracker, the texture/buffer update, the intersection          *)
(* classifier, clone and setOwner.                                         *)
(***************************************************************************)
EXTENDS Integers, Sequences, FiniteSets, TLC

-----------------------------------------------------------------------------
(* Bounds of the model *)

\* number of ClippingPlaneCollection objects that exist
NColl == 2
\* ClippingPlane objects created by the caller
NTracked == 2
\* legacy Plane objects created by the caller
NUntracked == 1
\* ClippingPlane objects that clone() may allocate
NFresh == 2
\* distinct (normal, distance) values a plane may take
NVals == 2
\* add() is not called on a collection that already holds MaxLen planes
MaxLen == 3
\* ContextLimits.maximumTextureSize of the host
maximumTextureSize == 2
\* the largest ContextLimits.maximumTextureSize the planner is called with
NSizes == 4
\* ContextLimits.maximumTextureSize of the narrow host, whose textures have
\* several rows
NarrowSize == 1
\* owner objects and the keys under which they hold a collection
NOwners == 2
NKeys == 2

-----------------------------------------------------------------------------
(* Values *)

Colls == 1..NColl
UserPlanes == 1..(NTracked + NUntracked)
FreshPlanes == (NTracked + NUntracked + 1)..(NTracked + NUntracked + NFresh)
PlaneIds == UserPlanes \cup FreshPlanes
Vals == 1..NVals
Owners == 1..NOwners
Keys == 1..NKeys

\* plane instanceof ClippingPlane
IsClippingPlane(p) == p <= NTracked \/ p > NTracked + NUntracked

\* the value of new ClippingPlane(Cartesian3.UNIT_X, 0.0)
UnitXZero == 1

\* JavaScript undefined, where a collection or an owner is expected
Undefined == 0

\* JavaScript NaN among the non-negative integers the update computes with
NaN == -1

INSIDE == "INSIDE"
OUTSIDE == "OUTSIDE"
INTERSECTING == "INTERSECTING"
Intersect == {INSIDE, OUTSIDE, INTERSECTING}

Min(a, b) == IF a < b THEN a ELSE b
Max(a, b) == IF a > b THEN a ELSE b

\* a * b, a < b, Math.max(a, b) and Math.ceil(a / b) of IEEE numbers
JsMul(a, b) == IF a = NaN \/ b = NaN THEN NaN ELSE a * b
JsLt(a, b) == a # NaN /\ b # NaN /\ a < b
JsMax(a, b) == IF a = NaN \/ b = NaN THEN NaN ELSE Max(a, b)
JsCeilDiv(a, b) ==
    IF a = NaN \/ b = NaN \/ (a = 0 /\ b = 0) THEN NaN
    ELSE (a + b - 1) \div b

\* length of new Float32Array(n) / new Uint8Array(n), in units of 4 elements
\* (the typed-array constructors turn NaN into length 0)
TypedArrayUnits(n) == IF n = NaN THEN 0 ELSE n

-----------------------------------------------------------------------------
(* State *)

VARIABLES
    colls,                \* the collections that were constructed
    planes,               \* _planes of each collection: a sequence of plane objects
    containsUntrackable,  \* _containsUntrackablePlanes
    dirtyIndex,           \* _dirtyIndex
    multipleDirty,        \* _multipleDirtyPlanes
    unionFlag,            \* _unionClippingRegions
    testIntersection,     \* _testIntersection: "union" or "default"
    owner,                \* _owner
    destroyed,            \* destroy() was called on the collection
    slots,                \* owner[key] of every owner object
    texture,              \* _clippingPlanesTexture: [defined, width, height, float, id]
    float32View,          \* _float32View: [defined, data]
    uint8View,            \* _uint8View: [defined, data]
    texPixels,            \* the contents of the texture, unit by unit
    floatingPointTexture, \* context.floatingPointTexture
    pVal,                 \* normal and distance of every plane object
    pIndex,               \* index of every plane object
    pCb,                  \* onChangeCallback of every plane object: the collection it reports to
    allocated,            \* the plane objects that exist
    everUntracked,        \* history: an untracked plane was once added to the collection
    sinceUpdate,          \* history: what the caller did to the collection's planes since its last update
    lastOp                \* the last call, its arguments and what it did

collVars == <<planes, containsUntrackable, dirtyIndex, multipleDirty>>
modeVars == <<unionFlag, testIntersection>>
ownerVars == <<owner, destroyed, slots>>
texVars == <<texture, float32View, uint8View, texPixels>>
planeVars == <<pVal, pIndex, pCb, allocated>>
vars == <<colls, collVars, modeVars, ownerVars, texVars, floatingPointTexture,
          planeVars, everUntracked, sinceUpdate, lastOp>>

NoTexture ==
    [defined |-> FALSE, width |-> 0, height |-> 0, float |-> FALSE,
     destroyed |-> FALSE]
NoView == [defined |-> FALSE, data |-> <<>>]
NoUpload == [kind |-> "none", width |-> 0, height |-> 0, x |-> 0, y |-> 0]
NoPack == <<-1, -1>>

\* the values of sinceUpdate: the set of plane objects mutated since the
\* last update that returned, while the sequence stayed as it was; or
\* Changed: the sequence was changed by add, remove, removeAll or clone, or
\* no update has returned yet
Mutated(S) == <<"mutated", S>>
Changed == <<"changed", {}>>
AfterMutation(h, p) ==
    IF h = Changed THEN Changed ELSE Mutated(h[2] \cup {p})

\* the record of a call: which operation, on which collection, with which
\* argument, what it returned and, for update, what work it did
BlankOp ==
    [op |-> "none", c |-> 0, arg |-> 0, ret |-> 0, threw |-> FALSE,
     destroyedTexture |-> FALSE, allocatedTexture |-> FALSE,
     packed |-> NoPack, upload |-> NoUpload,
     index |-> -1, pre |-> FALSE, repeat |-> FALSE,
     answers |-> <<>>, queried |-> 0]

\* the buffer units
ZeroUnit == <<"zero", 0>>
\* normal.x, normal.y, normal.z, distance as four floats
FloatUnit(v) == <<"float", v>>
\* AttributeCompression.octEncodeToCartesian4(normal): four bytes
OctUnit(v) == <<"oct", v>>
\* Cartesian4.packFloat(distance): four bytes
DistUnit(v) == <<"dist", v>>

-----------------------------------------------------------------------------
(* Construction *)

\* function ClippingPlaneCollection(options), options empty
InitCollections(cs) ==
    /\ colls = cs
    /\ planes = [c \in Colls |-> <<>>]
    /\ containsUntrackable = [c \in Colls |-> FALSE]
    /\ dirtyIndex = [c \in Colls |-> -1]
    /\ multipleDirty = [c \in Colls |-> FALSE]
    /\ unionFlag = [c \in Colls |-> FALSE]
    /\ testIntersection = [c \in Colls |-> "default"]
    /\ owner = [c \in Colls |-> Undefined]
    /\ destroyed = [c \in Colls |-> FALSE]
    /\ slots = [o \in Owners |-> [k \in Keys |-> Undefined]]
    /\ texture = [c \in Colls |-> NoTexture]
    /\ float32View = [c \in Colls |-> NoView]
    /\ uint8View = [c \in Colls |-> NoView]
    /\ texPixels = [c \in Colls |-> <<>>]
    /\ everUntracked = [c \in Colls |-> FALSE]
    /\ sinceUpdate = [c \in Colls |-> Changed]
    /\ lastOp = BlankOp

\* the plane objects the caller made: value-equal pairs exist among them
InitPlanes ==
    /\ pVal = [p \in PlaneIds |-> IF p \in UserPlanes THEN ((p - 1) % NVals) + 1 ELSE UnitXZero]
    /\ pIndex = [p \in PlaneIds |-> -1]
    /\ pCb = [p \in PlaneIds |-> Undefined]
    /\ allocated = UserPlanes

-----------------------------------------------------------------------------
(* Dirty tracker *)

setIndexDirtyForgetsMultiple(di, md, index) ==
    <<index, FALSE>>

\* function setIndexDirty(collection, index): the new <<_dirtyIndex, _multipleDirtyPlanes>>
setIndexDirty(di, md, index) ==
    <<index, md \/ (di # -1 /\ di # index)>>

-----------------------------------------------------------------------------
(* Plane set *)

SetMax(S) == CHOOSE x \in S : \A y \in S : y <= x

\* Plane.equals(left, right): same normal and same distance
PlaneEquals(p, q) == pVal[p] = pVal[q]

indexOfAnyPlane(ps, plane) ==
    IF Len(ps) > 0 THEN 0 ELSE -1

\* function indexOf(planes, plane): the first position holding a value-equal
\* plane, counted from 0, or -1
indexOf(ps, plane) ==
    IF \E i \in 1..Len(ps) : PlaneEquals(ps[i], plane)
    THEN (CHOOSE i \in 1..Len(ps) :
              /\ PlaneEquals(ps[i], plane)
              /\ \A j \in 1..(i - 1) : ~PlaneEquals(ps[j], plane)) - 1
    ELSE -1

\* ClippingPlaneCollection.prototype.add
Add(c, p) ==
    /\ c \in colls
    /\ p \in allocated
    /\ Len(planes[c]) < MaxLen
    /\ LET newPlaneIndex == Len(planes[c])
           d == setIndexDirty(dirtyIndex[c], multipleDirty[c], newPlaneIndex)
       IN  /\ IF IsClippingPlane(p)
              THEN /\ pCb' = [pCb EXCEPT ![p] = c]
                   /\ pIndex' = [pIndex EXCEPT ![p] = newPlaneIndex]
                   /\ UNCHANGED containsUntrackable
              ELSE /\ containsUntrackable' = [containsUntrackable EXCEPT ![c] = TRUE]
                   /\ UNCHANGED <<pCb, pIndex>>
           /\ dirtyIndex' = [dirtyIndex EXCEPT ![c] = d[1]]
           /\ multipleDirty' = [multipleDirty EXCEPT ![c] = d[2]]
           /\ planes' = [planes EXCEPT ![c] = Append(@, p)]
           /\ everUntracked' = [everUntracked EXCEPT ![c] = @ \/ ~IsClippingPlane(p)]
           /\ sinceUpdate' = [sinceUpdate EXCEPT ![c] = Changed]
           /\ lastOp' = [BlankOp EXCEPT !.op = "add", !.c = c]
    /\ UNCHANGED <<colls, modeVars, ownerVars, texVars, floatingPointTexture,
                   pVal, allocated>>

\* history: every plane of the collection is a ClippingPlane whose index is
\* its position
WellIndexed(c) ==
    \A i \in 1..Len(planes[c]) :
        IsClippingPlane(planes[c][i]) /\ pIndex[planes[c][i]] = i - 1

\* the sequence after the shift loop of remove: position index is dropped
ShiftDown(ps, index) ==
    [j \in 1..(Len(ps) - 1) |-> IF j <= index THEN ps[j] ELSE ps[j + 1]]

\* mutant of RemoveIndices: the planes shifted down keep their old index
RemoveIndicesNoRenumber(ps, index, clippingPlane) ==
    IF IsClippingPlane(clippingPlane)
    THEN [pIndex EXCEPT ![clippingPlane] = -1]
    ELSE pIndex

\* the index fields after remove: the argument is unlinked, then every plane
\* shifted down is given its new position, in loop order
RemoveIndices(ps, index, clippingPlane) ==
    LET unlinked == IF IsClippingPlane(clippingPlane)
                    THEN [pIndex EXCEPT ![clippingPlane] = -1]
                    ELSE pIndex
        kept == ShiftDown(ps, index)
        At(q) == {i \in index..(Len(kept) - 1) : kept[i + 1] = q}
    IN  [q \in PlaneIds |->
            IF IsClippingPlane(q) /\ At(q) # {} THEN SetMax(At(q)) ELSE unlinked[q]]

\* the callbacks after remove: the argument's callback is cleared
RemoveCallbacks(clippingPlane) ==
    IF IsClippingPlane(clippingPlane)
    THEN [pCb EXCEPT ![clippingPlane] = Undefined]
    ELSE pCb

\* ClippingPlaneCollection.prototype.remove
Remove(c, clippingPlane) ==
    /\ c \in colls
    /\ clippingPlane \in allocated
    /\ LET ps == planes[c]
           index == indexOf(ps, clippingPlane)
       IN  IF index = -1
           THEN /\ lastOp' = [BlankOp EXCEPT !.op = "remove", !.c = c,
                                             !.arg = clippingPlane, !.ret = FALSE]
                /\ UNCHANGED <<collVars, planeVars, sinceUpdate>>
           ELSE /\ pCb' = RemoveCallbacks(clippingPlane)
                /\ pIndex' = RemoveIndices(ps, index, clippingPlane)
                /\ planes' = [planes EXCEPT ![c] = ShiftDown(ps, index)]
                /\ multipleDirty' = [multipleDirty EXCEPT ![c] = TRUE]
                /\ sinceUpdate' = [sinceUpdate EXCEPT ![c] = Changed]
                /\ lastOp' = [BlankOp EXCEPT !.op = "remove", !.c = c,
                                             !.arg = clippingPlane, !.ret = TRUE,
                                             !.index = index,
                                             !.pre = WellIndexed(c)]
                /\ UNCHANGED <<containsUntrackable, dirtyIndex, pVal, allocated>>
    /\ UNCHANGED <<colls, modeVars, ownerVars, texVars, floatingPointTexture,
                   everUntracked>>

\* ClippingPlaneCollection.prototype.removeAll
RemoveAll(c) ==
    /\ c \in colls
    /\ LET members == {planes[c][i] : i \in 1..Len(planes[c])}
           unlink == {q \in members : IsClippingPlane(q)}
       IN  /\ pCb' = [q \in PlaneIds |-> IF q \in unlink THEN Undefined ELSE pCb[q]]
           /\ pIndex' = [q \in PlaneIds |-> IF q \in unlink THEN -1 ELSE pIndex[q]]
    /\ multipleDirty' = [multipleDirty EXCEPT ![c] = TRUE]
    /\ planes' = [planes EXCEPT ![c] = <<>>]
    /\ sinceUpdate' = [sinceUpdate EXCEPT ![c] = Changed]
    /\ lastOp' = [BlankOp EXCEPT !.op = "removeAll", !.c = c]
    /\ UNCHANGED <<colls, containsUntrackable, dirtyIndex, modeVars, ownerVars,
                   texVars, floatingPointTexture, pVal, allocated, everUntracked>>

\* ClippingPlaneCollection.prototype.get: this._planes[index]
get(ps, index) ==
    IF 0 <= index /\ index < Len(ps)
    THEN [threw |-> FALSE, value |-> ps[index + 1]]
    ELSE [threw |-> FALSE, value |-> Undefined]

\* a call of get with a number as index
Get(c, index) ==
    /\ c \in colls
    /\ index \in -1..(MaxLen + 1)
    /\ LET r == get(planes[c], index)
       IN  lastOp' = [BlankOp EXCEPT !.op = "get", !.c = c, !.arg = index,
                                     !.ret = r.value, !.threw = r.threw]
    /\ UNCHANGED <<colls, collVars, modeVars, ownerVars, texVars,
                   floatingPointTexture, planeVars, everUntracked, sinceUpdate>>

-----------------------------------------------------------------------------
(* Plane mutation *)

\* the normal and distance setters of ClippingPlane: a plane that has a
\* callback calls it with its index when it is given another value
SetterNotifies(p, callback, old, v) ==
    IsClippingPlane(p) /\ callback # Undefined /\ v # old

\* the dirty state after plane p is given value v: the new
\* <<_dirtyIndex, _multipleDirtyPlanes>> functions
NotifyChange(p, v, di, md) ==
    IF SetterNotifies(p, pCb[p], pVal[p], v)
    THEN LET c == pCb[p]
             d == setIndexDirty(di[c], md[c], pIndex[p])
         IN  <<[di EXCEPT ![c] = d[1]], [md EXCEPT ![c] = d[2]]>>
    ELSE <<di, md>>

\* the caller assigns a new normal or distance to a plane object
MutatePlane(p, v) ==
    /\ p \in allocated
    /\ v \in Vals
    /\ v # pVal[p]
    /\ LET d == NotifyChange(p, v, dirtyIndex, multipleDirty)
       IN  /\ dirtyIndex' = d[1]
           /\ multipleDirty' = d[2]
    /\ pVal' = [pVal EXCEPT ![p] = v]
    /\ sinceUpdate' = [c \in Colls |-> AfterMutation(sinceUpdate[c], p)]
    /\ lastOp' = [BlankOp EXCEPT !.op = "mutate"]
    /\ UNCHANGED <<colls, planes, containsUntrackable, modeVars, ownerVars,
                   texVars, floatingPointTexture, pIndex, pCb, allocated,
                   everUntracked>>

-----------------------------------------------------------------------------
(* Encoder *)

\* what packPlanesAsFloats(collection, startIndex, endIndex) writes, from
\* floatIndex = 0 on: four floats, one unit, for each plane of the range
FloatUnitsOf(ps, startIndex, endIndex) ==
    [j \in 1..(endIndex - startIndex) |-> FloatUnit(pVal[ps[startIndex + j]])]

\* what packPlanesAsUint8(collection, startIndex, endIndex) writes, from
\* byteIndex = 0 on: eight bytes, two units, for each plane of the range
Uint8UnitsOf(ps, startIndex, endIndex) ==
    [j \in 1..(2 * (endIndex - startIndex)) |->
        IF j % 2 = 1
        THEN OctUnit(pVal[ps[startIndex + ((j + 1) \div 2)]])
        ELSE DistUnit(pVal[ps[startIndex + (j \div 2)]])]

WriteUnitsNowhere(data, units) == data

\* the typed array after the writes: a write past its end is dropped
WriteUnits(data, units) ==
    [j \in 1..Len(data) |-> IF j <= Len(units) THEN units[j] ELSE data[j]]

\* the pack functions throw a TypeError when they reach a plane that does
\* not exist or when the view they write to was never allocated
PackThrows(view, ps, startIndex, endIndex) ==
    startIndex < endIndex /\ (~view.defined \/ endIndex > Len(ps))

Zeros(n) == [j \in 1..n |-> ZeroUnit]

-----------------------------------------------------------------------------
(* Resolution planner *)

\* function computeTextureResolution(pixelsNeeded, result), maxSize being
\* ContextLimits.maximumTextureSize
computeTextureResolutionFor(pixelsNeeded, maxSize) ==
    LET width == Min(pixelsNeeded, maxSize)
        height == JsCeilDiv(pixelsNeeded, width)
    IN  [x |-> JsMax(width, 1), y |-> JsMax(height, 1)]

\* computeTextureResolution on the context the collections are updated with
computeTextureResolution(pixelsNeeded) ==
    computeTextureResolutionFor(pixelsNeeded, maximumTextureSize)

\* a call of computeTextureResolution for the units collection c needs, as
\* update makes it, on a context whose maximum texture size is maxSize
Plan(c, maxSize) ==
    /\ c \in colls
    /\ maxSize \in 1..NSizes
    /\ LET length == Len(planes[c])
           pixelsNeeded == IF floatingPointTexture THEN length ELSE length * 2
       IN  lastOp' = [BlankOp EXCEPT
                         !.op = "plan", !.c = c, !.arg = <<pixelsNeeded, maxSize>>,
                         !.ret = computeTextureResolutionFor(pixelsNeeded, maxSize)]
    /\ UNCHANGED <<colls, collVars, modeVars, ownerVars, texVars,
                   floatingPointTexture, planeVars, everUntracked, sinceUpdate>>

\* mutant of NeedsReallocation: the factor 0.25 is left out
NeedsReallocationNoQuarter(currentPixelCount, pixelsNeeded) ==
    \/ JsLt(currentPixelCount, pixelsNeeded)
    \/ JsLt(pixelsNeeded, currentPixelCount)

\* currentPixelCount < pixelsNeeded || pixelsNeeded < 0.25 * currentPixelCount
NeedsReallocation(currentPixelCount, pixelsNeeded) ==
    \/ JsLt(currentPixelCount, pixelsNeeded)
    \/ JsLt(JsMul(4, pixelsNeeded), currentPixelCount)

\* mutant of RefreshFullTexture: the untracked planes are forgotten
RefreshFullTextureMultipleOnly(multiple, untrackable) == multiple

\* var refreshFullTexture = this._multipleDirtyPlanes || this._containsUntrackablePlanes
RefreshFullTexture(multiple, untrackable) == multiple \/ untrackable

\* the offset of the partial upload: <<offsetX, offsetY>>
PartialOffset(dirty, width) ==
    LET offsetY == dirty \div width
        offsetX == dirty - offsetY * width
    IN  <<offsetX, offsetY>>

-----------------------------------------------------------------------------
(* GPU resource *)

\* Texture.copyFrom(source, xOffset, yOffset): the region of source.width x
\* source.height units at the offset takes the first units of the array; a
\* region outside the texture, or an array that is missing or too short,
\* changes nothing
CopyFrom(pixels, tex, up, view) ==
    LET w == up.width
        h == TypedArrayUnits(up.height)
        texH == TypedArrayUnits(tex.height)
        inside == up.x + w <= tex.width /\ up.y + h <= texH
        enough == view.defined /\ w * h <= Len(view.data)
        Src(j) == LET lin == j - 1
                      row == lin \div tex.width
                      col == lin % tex.width
                  IN  IF /\ row >= up.y /\ row < up.y + h
                         /\ col >= up.x /\ col < up.x + w
                      THEN (row - up.y) * w + (col - up.x) + 1
                      ELSE 0
    IN  IF inside /\ enough
        THEN [j \in 1..Len(pixels) |->
                 IF Src(j) # 0 THEN view.data[Src(j)] ELSE pixels[j]]
        ELSE pixels

-----------------------------------------------------------------------------
(* Update scheduler *)

MultipleAfterAllocationKept(multiple, allocIt) == multiple

\* _multipleDirtyPlanes once the texture is there: set to true at the end of
\* the allocation
MultipleAfterAllocation(multiple, allocIt) == multiple \/ allocIt

DirtyAfterUploadKept(di, md) == <<di, md>>

\* the end of update, reached after the upload: <<_dirtyIndex,
\* _multipleDirtyPlanes>> are reset
DirtyAfterUpload(di, md) == <<-1, FALSE>>

\* ClippingPlaneCollection.prototype.update on a host whose
\* ContextLimits.maximumTextureSize is maxSize.  The views and the texture are
\* only ever written by this file, never read back: with observe FALSE their
\* sizes are kept and their contents are left zeroed.  allocationFails: the
\* Texture constructor this call reaches throws.
UpdateStepFor(c, observe, maxSize, allocationFails) ==
    /\ c \in colls
    /\ LET tex0 == texture[c]
           useFloatTexture == floatingPointTexture
           length == Len(planes[c])
           pixelsNeeded == IF useFloatTexture THEN length ELSE length * 2
           requiredResolution == computeTextureResolutionFor(pixelsNeeded, maxSize)
           currentPixelCount == JsMul(tex0.width, tex0.height)
           destroyIt == tex0.defined /\ NeedsReallocation(currentPixelCount, pixelsNeeded)
           allocIt == ~tex0.defined \/ destroyIt
           rx == JsMul(requiredResolution.x, 2)
           ry == requiredResolution.y
           tex1 == IF allocIt
                   THEN [defined |-> TRUE, width |-> rx, height |-> ry,
                         float |-> useFloatTexture, destroyed |-> FALSE]
                   ELSE tex0
           units == TypedArrayUnits(JsMul(rx, ry))
           f32a == IF allocIt /\ useFloatTexture
                   THEN [defined |-> TRUE, data |-> Zeros(units)]
                   ELSE float32View[c]
           u8a == IF allocIt /\ ~useFloatTexture
                  THEN [defined |-> TRUE, data |-> Zeros(units)]
                  ELSE uint8View[c]
           pix1 == IF allocIt THEN Zeros(units) ELSE texPixels[c]
           multiple1 == MultipleAfterAllocation(multipleDirty[c], allocIt)
           refreshFullTexture == RefreshFullTexture(multiple1, containsUntrackable[c])
           dirty == dirtyIndex[c]
           startIndex == IF refreshFullTexture THEN 0 ELSE dirty
           endIndex == IF refreshFullTexture THEN length ELSE dirty + 1
           view == IF useFloatTexture THEN f32a ELSE u8a
           threw == PackThrows(view, planes[c], startIndex, endIndex)
           written == IF useFloatTexture
                      THEN FloatUnitsOf(planes[c], startIndex, endIndex)
                      ELSE Uint8UnitsOf(planes[c], startIndex, endIndex)
           view2 == IF view.defined /\ observe
                    THEN [view EXCEPT !.data = WriteUnits(@, written)]
                    ELSE view
           offset == PartialOffset(dirty, tex1.width)
           up == IF refreshFullTexture
                 THEN [kind |-> "full", width |-> tex1.width, height |-> tex1.height,
                       x |-> 0, y |-> 0]
                 ELSE [kind |-> "partial",
                       width |-> IF useFloatTexture THEN 1 ELSE 2, height |-> 1,
                       x |-> offset[1], y |-> offset[2]]
           op == [BlankOp EXCEPT !.op = "update", !.c = c,
                                 !.destroyedTexture = destroyIt,
                                 !.allocatedTexture = allocIt,
                                 !.repeat = (lastOp.op = "update" /\ lastOp.c = c)]
       IN  /\ allocationFails => (allocIt /\ ~(destroyIt /\ tex0.destroyed))
           /\ IF destroyIt /\ tex0.destroyed
              THEN \* destroy() of a destroyed texture throws
                   /\ UNCHANGED <<texVars, dirtyIndex, multipleDirty, sinceUpdate>>
                   /\ lastOp' = [op EXCEPT !.threw = TRUE, !.destroyedTexture = FALSE,
                                           !.allocatedTexture = FALSE]
              ELSE IF allocationFails
              THEN \* new Texture throws: a texture that was destroyed for the
                   \* reallocation is still the collection's texture
                   /\ texture' = [texture EXCEPT ![c] =
                                     IF destroyIt THEN [tex0 EXCEPT !.destroyed = TRUE]
                                     ELSE tex0]
                   /\ UNCHANGED <<float32View, uint8View, texPixels, dirtyIndex,
                                  multipleDirty>>
                   /\ sinceUpdate' = [sinceUpdate EXCEPT ![c] = Changed]
                   /\ lastOp' = [op EXCEPT !.threw = TRUE, !.allocatedTexture = FALSE]
              ELSE IF ~refreshFullTexture /\ dirty = -1
              THEN \* nothing is dirty: return
                   /\ UNCHANGED <<texVars, dirtyIndex, multipleDirty>>
                   /\ sinceUpdate' = [sinceUpdate EXCEPT ![c] = Mutated({})]
                   /\ lastOp' = op
              ELSE IF threw
              THEN \* the pack function throws: the texture stays, nothing is cleared
                   /\ texture' = [texture EXCEPT ![c] = tex1]
                   /\ float32View' = [float32View EXCEPT ![c] = f32a]
                   /\ uint8View' = [uint8View EXCEPT ![c] = u8a]
                   /\ texPixels' = [texPixels EXCEPT ![c] = pix1]
                   /\ multipleDirty' = [multipleDirty EXCEPT ![c] = multiple1]
                   /\ UNCHANGED dirtyIndex
                   /\ sinceUpdate' = [sinceUpdate EXCEPT ![c] = Changed]
                   /\ lastOp' = [op EXCEPT !.threw = TRUE]
              ELSE IF tex1.destroyed
              THEN \* copyFrom of a destroyed texture throws, after the packing
                   /\ float32View' = [float32View EXCEPT ![c] =
                                         IF useFloatTexture THEN view2 ELSE f32a]
                   /\ uint8View' = [uint8View EXCEPT ![c] =
                                       IF useFloatTexture THEN u8a ELSE view2]
                   /\ UNCHANGED <<texture, texPixels, dirtyIndex, multipleDirty>>
                   /\ sinceUpdate' = [sinceUpdate EXCEPT ![c] = Changed]
                   /\ lastOp' = [op EXCEPT !.threw = TRUE,
                                           !.packed = <<startIndex, endIndex>>]
              ELSE /\ texture' = [texture EXCEPT ![c] = tex1]
                   /\ float32View' = [float32View EXCEPT ![c] =
                                         IF useFloatTexture THEN view2 ELSE f32a]
                   /\ uint8View' = [uint8View EXCEPT ![c] =
                                       IF useFloatTexture THEN u8a ELSE view2]
                   /\ texPixels' = [texPixels EXCEPT ![c] =
                                       IF observe THEN CopyFrom(pix1, tex1, up, view2)
                                       ELSE pix1]
                   /\ dirtyIndex' = [dirtyIndex EXCEPT ![c] =
                                        DirtyAfterUpload(dirty, multiple1)[1]]
                   /\ multipleDirty' = [multipleDirty EXCEPT ![c] =
                                           DirtyAfterUpload(dirty, multiple1)[2]]
                   /\ sinceUpdate' = [sinceUpdate EXCEPT ![c] = Mutated({})]
                   /\ lastOp' = [op EXCEPT !.packed = <<startIndex, endIndex>>,
                                           !.upload = up]
    /\ UNCHANGED <<colls, planes, containsUntrackable, modeVars, ownerVars,
                   floatingPointTexture, planeVars, everUntracked>>

\* var context = frameState.context: the update that follows is given a
\* context whose floatingPointTexture differs from the one of the last update
SwitchContext ==
    /\ floatingPointTexture' = ~floatingPointTexture
    /\ lastOp' = [BlankOp EXCEPT !.op = "context"]
    /\ UNCHANGED <<colls, collVars, modeVars, ownerVars, texVars, planeVars,
                   everUntracked, sinceUpdate>>

\* update on the host of the specifications, whose texture allocations
\* succeed
UpdateStep(c, observe) == UpdateStepFor(c, observe, maximumTextureSize, FALSE)

\* update, with the contents of the buffers
Update(c) == UpdateStep(c, TRUE)

\* update, with the sizes of the buffers only
UpdateSizes(c) == UpdateStep(c, FALSE)

-----------------------------------------------------------------------------
(* Intersection classifier *)

\* unionIntersectFunction and defaultIntersectFunction
unionIntersectFunction(value) == value = OUTSIDE
defaultIntersectFunctionOutside(value) == value = OUTSIDE
defaultIntersectFunction(value) == value = INSIDE
TestIntersection(fn, value) ==
    IF fn = "union" THEN unionIntersectFunction(value)
    ELSE defaultIntersectFunction(value)

\* the loop over the planes: answers[i] is what the volume answers for plane
\* i.  Gives <<the value returned, the number of planes queried>>.
RECURSIVE ClassifyLoop(_, _, _, _)
ClassifyLoop(fn, answers, i, intersection) ==
    IF i > Len(answers) THEN <<intersection, Len(answers)>>
    ELSE LET value == answers[i]
         IN  IF value = INTERSECTING
             THEN ClassifyLoop(fn, answers, i + 1, value)
             ELSE IF TestIntersection(fn, value)
             THEN <<value, i>>
             ELSE ClassifyLoop(fn, answers, i + 1, intersection)

\* ClippingPlaneCollection.prototype.computeIntersectionWithBoundingVolume
computeIntersectionWithBoundingVolume(unionClippingRegions, fn, answers) ==
    LET length == Len(answers)
        intersection == IF ~unionClippingRegions /\ length > 0 THEN OUTSIDE ELSE INSIDE
    IN  ClassifyLoop(fn, answers, 1, intersection)

\* a call of computeIntersectionWithBoundingVolume with a volume that
\* classifies itself against the planes as answers says
ComputeIntersection(c, answers) ==
    /\ c \in colls
    /\ answers \in [1..Len(planes[c]) -> Intersect]
    /\ LET r == computeIntersectionWithBoundingVolume(unionFlag[c], testIntersection[c], answers)
       IN  lastOp' = [BlankOp EXCEPT !.op = "classify", !.c = c, !.ret = r[1],
                                     !.answers = answers, !.queried = r[2]]
    /\ UNCHANGED <<colls, collVars, modeVars, ownerVars, texVars,
                   floatingPointTexture, planeVars, everUntracked, sinceUpdate>>

unionClippingRegionsSetterKeepsFunction(current, fn, value) ==
    IF current = value THEN <<current, fn>>
    ELSE <<value, fn>>

\* the setter of unionClippingRegions: <<_unionClippingRegions, _testIntersection>>
unionClippingRegionsSetter(current, fn, value) ==
    IF current = value THEN <<current, fn>>
    ELSE <<value, IF value THEN "union" ELSE "default">>

\* collection.unionClippingRegions = value
SetUnionClippingRegions(c, value) ==
    /\ c \in colls
    /\ value \in BOOLEAN
    /\ LET r == unionClippingRegionsSetter(unionFlag[c], testIntersection[c], value)
       IN  /\ unionFlag' = [unionFlag EXCEPT ![c] = r[1]]
           /\ testIntersection' = [testIntersection EXCEPT ![c] = r[2]]
    /\ lastOp' = [BlankOp EXCEPT !.op = "setUnion", !.c = c]
    /\ UNCHANGED <<colls, collVars, ownerVars, texVars, floatingPointTexture,
                   planeVars, everUntracked, sinceUpdate>>

-----------------------------------------------------------------------------
(* Cloning *)

\* the j-th plane object that new ClippingPlane(...) has not handed out yet
NthFree(j) ==
    LET free == FreshPlanes \ allocated
    IN  CHOOSE p \in free : Cardinality({q \in free : q < p}) = j - 1

\* result._planes after its length is set to the source's and the new places
\* are filled with new ClippingPlane(Cartesian3.UNIT_X, 0.0)
CloneTargetPlanes(resultPlanes, length) ==
    [i \in 1..length |->
        IF i <= Len(resultPlanes) THEN resultPlanes[i]
        ELSE NthFree(i - Len(resultPlanes))]

\* the loop of clone over i = 0 .. length - 1, st holding the fields of the
\* plane objects and the dirty state of the result: each plane of the result
\* gets index i, a callback to the result and the value of the source's plane
RECURSIVE CloneLoop(_, _, _, _, _)
CloneLoop(i, sourcePlanes, resultPlanes, result, st) ==
    IF i > Len(sourcePlanes) THEN st
    ELSE LET resultPlane == resultPlanes[i]
             v == st.val[sourcePlanes[i]]
             d == IF SetterNotifies(resultPlane, result, st.val[resultPlane], v)
                  THEN setIndexDirty(st.di, st.md, i - 1)
                  ELSE <<st.di, st.md>>
         IN  CloneLoop(i + 1, sourcePlanes, resultPlanes, result,
                       [val |-> [st.val EXCEPT ![resultPlane] = v],
                        idx |-> [st.idx EXCEPT ![resultPlane] = i - 1],
                        cb |-> [st.cb EXCEPT ![resultPlane] = result],
                        di |-> d[1], md |-> d[2]])

\* ClippingPlaneCollection.prototype.clone, result being an existing collection
Clone(source, result) ==
    /\ source \in colls
    /\ result \in colls
    /\ LET length == Len(planes[source])
           grow == IF length > Len(planes[result])
                   THEN length - Len(planes[result]) ELSE 0
       IN  /\ Cardinality(FreshPlanes \ allocated) >= grow
           /\ LET resultPlanes == CloneTargetPlanes(planes[result], length)
                  made == {resultPlanes[i] : i \in (length - grow + 1)..length}
                  sourcePlanes == IF source = result THEN resultPlanes
                                  ELSE planes[source]
                  st == CloneLoop(1, sourcePlanes, resultPlanes, result,
                                  [val |-> pVal, idx |-> pIndex, cb |-> pCb,
                                   di |-> dirtyIndex[result],
                                   md |-> multipleDirty[result]])
                  mode == unionClippingRegionsSetter(unionFlag[result],
                              testIntersection[result], unionFlag[source])
              IN  /\ planes' = [planes EXCEPT ![result] = resultPlanes]
                  /\ allocated' = allocated \cup made
                  /\ pVal' = st.val
                  /\ pIndex' = st.idx
                  /\ pCb' = st.cb
                  /\ dirtyIndex' = [dirtyIndex EXCEPT ![result] = st.di]
                  /\ multipleDirty' = [multipleDirty EXCEPT ![result] = st.md]
                  /\ unionFlag' = [unionFlag EXCEPT ![result] = mode[1]]
                  /\ testIntersection' = [testIntersection EXCEPT ![result] = mode[2]]
    /\ sinceUpdate' = [sinceUpdate EXCEPT ![result] = Changed]
    /\ lastOp' = [BlankOp EXCEPT !.op = "clone", !.c = result, !.arg = source]
    /\ UNCHANGED <<colls, containsUntrackable, ownerVars, texVars,
                   floatingPointTexture, everUntracked>>

-----------------------------------------------------------------------------
(* Ownership *)

SetOwnerNeverThrows(clippingPlaneCollection) ==
    FALSE

\* the check of setOwner: an owned collection is not assigned again
SetOwnerThrows(clippingPlaneCollection) ==
    owner[clippingPlaneCollection] # Undefined

\* ClippingPlaneCollection.setOwner(clippingPlaneCollection, owner, key), the
\* first argument being a collection or undefined
SetOwner(clippingPlaneCollection, o, key) ==
    /\ clippingPlaneCollection \in colls \cup {Undefined}
    /\ LET held == slots[o][key]
           op == [BlankOp EXCEPT !.op = "setOwner", !.c = clippingPlaneCollection,
                                 !.arg = <<o, key>>]
           cleared == [slots EXCEPT ![o][key] = Undefined]
       IN  IF clippingPlaneCollection = held
           THEN \* already held by owner[key]: return
                /\ lastOp' = op
                /\ UNCHANGED <<ownerVars, texture>>
           ELSE IF held # Undefined /\ (destroyed[held] \/ texture[held].destroyed)
           THEN \* destroy() of a destroyed object throws
                /\ lastOp' = [op EXCEPT !.threw = TRUE]
                /\ UNCHANGED <<ownerVars, texture>>
           ELSE /\ destroyed' = IF held # Undefined
                                THEN [destroyed EXCEPT ![held] = TRUE]
                                ELSE destroyed
                /\ texture' = IF held # Undefined
                              THEN [texture EXCEPT ![held] = NoTexture]
                              ELSE texture
                /\ IF clippingPlaneCollection = Undefined
                   THEN /\ slots' = cleared
                        /\ lastOp' = op
                        /\ UNCHANGED owner
                   ELSE IF SetOwnerThrows(clippingPlaneCollection)
                   THEN /\ slots' = cleared
                        /\ lastOp' = [op EXCEPT !.threw = TRUE]
                        /\ UNCHANGED owner
                   ELSE /\ owner' = [owner EXCEPT ![clippingPlaneCollection] = o]
                        /\ slots' = [slots EXCEPT ![o][key] = clippingPlaneCollection]
                        /\ lastOp' = op
    /\ UNCHANGED <<colls, collVars, modeVars, float32View, uint8View, texPixels,
                   floatingPointTexture, planeVars, everUntracked, sinceUpdate>>

-----------------------------------------------------------------------------
(* Specifications *)

TrackedPlanes == {p \in UserPlanes : IsClippingPlane(p)}
UntrackedPlanes == {p \in UserPlanes : ~IsClippingPlane(p)}

\* Spec: one collection, the caller's ClippingPlane objects, a host whose
\* float-texture support does not change
Init ==
    /\ InitCollections({1})
    /\ InitPlanes
    /\ floatingPointTexture \in BOOLEAN

Next ==
    \/ \E c \in colls, p \in TrackedPlanes : Add(c, p)
    \/ \E c \in colls, p \in TrackedPlanes : Remove(c, p)
    \/ \E c \in colls : RemoveAll(c)
    \/ \E p \in TrackedPlanes, v \in Vals : MutatePlane(p, v)
    \/ \E c \in colls : UpdateSizes(c)

Spec == Init /\ [][Next]_vars

\* SpecLegacy: one collection, one ClippingPlane object and the caller's
\* legacy Plane objects
LegacyPlanes == {1} \cup UntrackedPlanes

NextLegacy ==
    \/ \E c \in colls, p \in LegacyPlanes : Add(c, p)
    \/ \E c \in colls, p \in LegacyPlanes : Remove(c, p)
    \/ \E c \in colls : RemoveAll(c)
    \/ \E p \in LegacyPlanes, v \in Vals : MutatePlane(p, v)
    \/ \E c \in colls : UpdateSizes(c)

SpecLegacy == Init /\ [][NextLegacy]_vars

\* SpecDetached: as Spec, the caller adding a plane object only while it is
\* detached (index -1, no callback)
AddDetached(c, p) ==
    /\ pIndex[p] = -1
    /\ pCb[p] = Undefined
    /\ Add(c, p)

NextDetached ==
    \/ \E c \in colls, p \in TrackedPlanes : AddDetached(c, p)
    \/ \E c \in colls, p \in TrackedPlanes : Remove(c, p)
    \/ \E c \in colls : RemoveAll(c)
    \/ \E p \in TrackedPlanes, v \in Vals : MutatePlane(p, v)
    \/ \E c \in colls : UpdateSizes(c)

SpecDetached == Init /\ [][NextDetached]_vars

\* SpecClone: two collections, one ClippingPlane object of the caller and the
\* ones clone makes; the caller adds a plane object only while it is detached
InitClone ==
    /\ InitCollections({1, 2})
    /\ InitPlanes
    /\ floatingPointTexture = TRUE

\* the caller's plane object that differs from new ClippingPlane(UNIT_X, 0.0)
ClonePlanes == {p \in TrackedPlanes : p = UnitXZero + 1}

NextClone ==
    \/ \E c \in colls, p \in ClonePlanes : AddDetached(c, p)
    \/ \E c \in colls, p \in ClonePlanes : Remove(c, p)
    \/ \E c \in colls : RemoveAll(c)
    \/ \E source \in colls, result \in colls : Clone(source, result)
    \/ \E p \in allocated \ UntrackedPlanes, v \in Vals : MutatePlane(p, v)

SpecClone == InitClone /\ [][NextClone]_vars

\* SpecTracker: every operation that can touch a dirty tracker: the caller
\* works on the first collection and on its ClippingPlane, clones it into the
\* second one, while neither is destroyed
Live == {c \in colls : ~destroyed[c]}

NextTracker ==
    \/ \E c \in Live, p \in ClonePlanes : c = 1 /\ Add(c, p)
    \/ \E c \in Live, p \in ClonePlanes : c = 1 /\ Remove(c, p)
    \/ \E c \in Live : c = 1 /\ RemoveAll(c)
    \/ \E p \in ClonePlanes, v \in Vals : MutatePlane(p, v)
    \/ \E source \in Live, result \in Live :
           source < result /\ Clone(source, result)
    \/ \E c \in Live :
           ComputeIntersection(c, [i \in 1..Len(planes[c]) |-> INTERSECTING])
    \/ \E c \in Live \cup {Undefined}, o \in Owners, key \in Keys :
           o = 1 /\ key = 1 /\ SetOwner(c, o, key)
    \/ \E c \in Live : c = 1 /\ UpdateSizes(c)

SpecTracker == InitClone /\ [][NextTracker]_vars

\* SpecContents: as SpecDetached, with the contents of the views and of the
\* texture
NextContents ==
    \/ \E c \in colls, p \in TrackedPlanes : AddDetached(c, p)
    \/ \E c \in colls, p \in TrackedPlanes : Remove(c, p)
    \/ \E c \in colls : RemoveAll(c)
    \/ \E p \in TrackedPlanes, v \in Vals : MutatePlane(p, v)
    \/ \E c \in colls : Update(c)

SpecContents == Init /\ [][NextContents]_vars

\* SpecRows: as SpecDetached, on the narrow host
NextRows ==
    \/ \E c \in colls, p \in TrackedPlanes : AddDetached(c, p)
    \/ \E c \in colls, p \in TrackedPlanes : Remove(c, p)
    \/ \E c \in colls : RemoveAll(c)
    \/ \E p \in TrackedPlanes, v \in Vals : MutatePlane(p, v)
    \/ \E c \in colls : UpdateStepFor(c, FALSE, NarrowSize, FALSE)

SpecRows == Init /\ [][NextRows]_vars

\* SpecContext: one collection of the caller's ClippingPlanes, updated with
\* contexts that differ in their float-texture support
NextContext ==
    \/ \E c \in colls, p \in TrackedPlanes : AddDetached(c, p)
    \/ \E c \in colls : RemoveAll(c)
    \/ \E p \in TrackedPlanes, v \in Vals : MutatePlane(p, v)
    \/ \E c \in colls : Update(c)
    \/ SwitchContext

SpecContext == Init /\ [][NextContext]_vars

\* SpecAlloc: one collection that grows and is emptied, held and released by
\* an owner, on a host whose texture allocation may fail
NextAlloc ==
    \/ \E c \in Live, p \in TrackedPlanes : Add(c, p)
    \/ \E c \in Live : RemoveAll(c)
    \/ \E c \in Live : UpdateSizes(c)
    \/ \E c \in Live : UpdateStepFor(c, FALSE, maximumTextureSize, TRUE)
    \/ \E c \in Live \cup {Undefined}, o \in Owners, key \in Keys :
           o = 1 /\ key = 1 /\ SetOwner(c, o, key)

SpecAlloc == Init /\ [][NextAlloc]_vars

\* SpecPlanner: one collection of either layout that grows and is emptied, and
\* the planner called for it
NextPlanner ==
    \/ \E c \in colls, p \in TrackedPlanes : Add(c, p)
    \/ \E c \in colls : RemoveAll(c)
    \/ \E c \in colls, maxSize \in 1..NSizes : Plan(c, maxSize)

SpecPlanner == Init /\ [][NextPlanner]_vars

\* SpecQuery: one collection whose planes are only counted, its mode flag,
\* the classifier and get
NextQuery ==
    \/ \E c \in colls : Add(c, 1)
    \/ \E c \in colls : RemoveAll(c)
    \/ \E c \in colls, value \in BOOLEAN : SetUnionClippingRegions(c, value)
    \/ \E c \in colls, n \in 0..MaxLen :
           \E answers \in [1..n -> Intersect] : ComputeIntersection(c, answers)
    \/ \E c \in colls, index \in -1..(MaxLen + 1) : Get(c, index)

SpecQuery == Init /\ [][NextQuery]_vars

\* SpecOwner: the collections and the owner objects that hold them
InitOwner ==
    /\ InitCollections(Colls)
    /\ InitPlanes
    /\ floatingPointTexture = TRUE

NextOwner ==
    \E c \in Colls \cup {Undefined}, o \in Owners, key \in Keys : SetOwner(c, o, key)

SpecOwner == InitOwner /\ [][NextOwner]_vars

-----------------------------------------------------------------------------
(* Properties *)

PixelsNeeded(c) ==
    IF floatingPointTexture THEN Len(planes[c]) ELSE 2 * Len(planes[c])

\* an update record that shows no reallocation, no encoding and no upload
NoWork(r) ==
    /\ ~r.destroyedTexture
    /\ ~r.allocatedTexture
    /\ r.packed = NoPack
    /\ r.upload = NoUpload

\* an update record that shows every plane encoded and the whole texture uploaded
FullRefreshOf(r, ps, tex) ==
    /\ ~r.threw
    /\ r.packed = <<0, Len(ps)>>
    /\ r.upload = [kind |-> "full", width |-> tex.width,
                   height |-> tex.height, x |-> 0, y |-> 0]
FullRefresh(r, c) == FullRefreshOf(r, planes[c], texture[c])

OnlyTrackedPlanes(c) ==
    \A i \in 1..Len(planes[c]) : IsClippingPlane(planes[c][i])

\* C1 as stated: for a collection that now contains only tracked planes, an
\* update that directly follows another update of the same collection
\* reallocates nothing, encodes nothing and uploads nothing.
C1_SecondUpdateIdleIfOnlyTracked ==
    (lastOp.op = "update" /\ lastOp.repeat /\ OnlyTrackedPlanes(lastOp.c))
        => NoWork(lastOp)

\* C1 amended: for a collection to which no untracked plane was ever added,
\* an update that directly follows another update of the same collection
\* reallocates nothing, encodes nothing and uploads nothing.
C1_SecondUpdateIdleIfNeverUntracked ==
    (lastOp.op = "update" /\ lastOp.repeat /\ ~everUntracked[lastOp.c])
        => NoWork(lastOp)

\* C1 witness: a second update in a row on a collection of tracked planes
\* only, which holds planes and has a texture
C1_Witness ==
    /\ lastOp.op = "update"
    /\ lastOp.repeat
    /\ ~everUntracked[lastOp.c]
    /\ Len(planes[lastOp.c]) > 0
    /\ texture[lastOp.c].defined

\* the planes of c are ClippingPlanes linked to c: index = position, callback = c
WellLinked(c) ==
    \A i \in 1..Len(planes[c]) :
        /\ IsClippingPlane(planes[c][i])
        /\ pIndex[planes[c][i]] = i - 1
        /\ pCb[planes[c][i]] = c

Members(c) == {planes[c][i] : i \in 1..Len(planes[c])}

\* the region of plane i in a texture of the given width: its first unit at
\* linear position i (float layout) or 2i (quantized layout)
PlaneRegion(i, width) ==
    LET unitsPerPlane == IF floatingPointTexture THEN 1 ELSE 2
        first == i * unitsPerPlane
    IN  [kind |-> "partial", width |-> unitsPerPlane, height |-> 1,
         x |-> first % width, y |-> first \div width]

\* C2: for a collection of tracked planes linked to it, never given an
\* untracked plane, whose texture needs no reallocation: when exactly one of
\* its planes (index i) was mutated since the last update, the update encodes
\* plane i only and uploads plane i's region only; when two or more of its
\* planes were mutated, it encodes every plane and uploads the whole texture.
C2_PartialUpdateOfThePlaneRegion ==
    [][\A c \in colls :
        (/\ lastOp'.op = "update" /\ lastOp'.c = c
         /\ sinceUpdate[c] # Changed
         /\ WellLinked(c) /\ ~everUntracked[c]
         /\ ~lastOp'.allocatedTexture)
        => LET mutated == sinceUpdate[c][2] \cap Members(c)
           IN  /\ \A i \in 1..Len(planes[c]) :
                     mutated = {planes[c][i]} =>
                         /\ lastOp'.packed = <<i - 1, i>>
                         /\ lastOp'.upload = PlaneRegion(i - 1, texture[c].width)
               /\ Cardinality(mutated) >= 2 => FullRefreshOf(lastOp', planes'[c], texture'[c])]_vars

C4_ReallocationIffTooSmallOrTooLarge ==
    [][\A c \in colls :
        (lastOp'.op = "update" /\ lastOp'.c = c /\ texture[c].defined)
        => LET N == PixelsNeeded(c)
               w == texture[c].width
               h == texture[c].height
               replace == h # NaN /\ (N > w * h \/ 4 * N < w * h)
           IN  IF replace
               THEN lastOp'.destroyedTexture /\ lastOp'.allocatedTexture
               ELSE /\ ~lastOp'.destroyedTexture
                    /\ ~lastOp'.allocatedTexture
                    /\ texture'[c] = texture[c]]_vars

\* C4 witness: an update replaced the texture of a collection that had grown
C4_Witness ==
    /\ lastOp.op = "update"
    /\ lastOp.destroyedTexture
    /\ Len(planes[lastOp.c]) = MaxLen

\* C4, second case: an update replaced the texture of a collection that had shrunk
C4_WitnessShrink ==
    /\ lastOp.op = "update"
    /\ lastOp.destroyedTexture
    /\ Len(planes[lastOp.c]) = 1

\* C9: once an untracked plane was added to a collection, every update of it
\* encodes every plane and uploads the whole texture.
C9_UntrackedForcesFullRefresh ==
    (lastOp.op = "update" /\ everUntracked[lastOp.c])
        => FullRefresh(lastOp, lastOp.c)

\* C9 witness: the second update in a row of a collection that once held an
\* untracked plane and now holds tracked planes only
C9_Witness ==
    /\ lastOp.op = "update"
    /\ lastOp.repeat
    /\ everUntracked[lastOp.c]
    /\ OnlyTrackedPlanes(lastOp.c)
    /\ Len(planes[lastOp.c]) > 0

\* C10: every tracked plane that is in a sequence has its position there as
\* index, and every tracked plane that is in no sequence has index -1.
C10_IndexIsPosition ==
    \A p \in allocated :
        IsClippingPlane(p) =>
            /\ \A c \in colls : \A i \in 1..Len(planes[c]) :
                   planes[c][i] = p => pIndex[p] = i - 1
            /\ (\A c \in colls : p \notin Members(c)) => pIndex[p] = -1

\* the position of the first plane that answers v, or the number of planes
FirstAnswer(answers, v) ==
    IF \E i \in 1..Len(answers) : answers[i] = v
    THEN CHOOSE i \in 1..Len(answers) :
             /\ answers[i] = v
             /\ \A j \in 1..(i - 1) : answers[j] # v
    ELSE Len(answers)

\* C5: in intersection mode (flag false, also after the setter switched it) the
\* classifier returns INSIDE for an empty collection; for a non-empty one it
\* returns INSIDE iff some plane answers INSIDE, OUTSIDE iff every plane answers
\* OUTSIDE and INTERSECTING otherwise; it queries no plane after the first one
\* that answers INSIDE.
C5_IntersectionModeClassification ==
    (lastOp.op = "classify" /\ ~unionFlag[lastOp.c]) =>
        LET a == lastOp.answers
            someInside == \E i \in 1..Len(a) : a[i] = INSIDE
            allOutside == \A i \in 1..Len(a) : a[i] = OUTSIDE
        IN  /\ Len(a) = 0 => lastOp.ret = INSIDE
            /\ Len(a) > 0 =>
                   /\ lastOp.ret = INSIDE <=> someInside
                   /\ lastOp.ret = OUTSIDE <=> allOutside
                   /\ lastOp.ret = INTERSECTING <=> (~someInside /\ ~allOutside)
            /\ lastOp.queried = FirstAnswer(a, INSIDE)

\* an intersection-mode call where a plane answers INSIDE after one that
\* straddles and one that excludes, and the last plane is not queried
C5_Witness ==
    /\ lastOp.op = "classify"
    /\ ~unionFlag[lastOp.c]
    /\ lastOp.answers = <<OUTSIDE, INSIDE, OUTSIDE>>
    /\ lastOp.ret = INSIDE
    /\ lastOp.queried = 2

\* C6: in union mode (flag true, also after the setter switched it) the
\* classifier returns OUTSIDE iff some plane answers OUTSIDE, otherwise
\* INTERSECTING iff some plane answers INTERSECTING, otherwise INSIDE (so
\* INSIDE for an empty collection); it queries no plane after the first one
\* that answers OUTSIDE.
C6_UnionModeClassification ==
    (lastOp.op = "classify" /\ unionFlag[lastOp.c]) =>
        LET a == lastOp.answers
            someOutside == \E i \in 1..Len(a) : a[i] = OUTSIDE
            someIntersecting == \E i \in 1..Len(a) : a[i] = INTERSECTING
        IN  /\ lastOp.ret = IF someOutside THEN OUTSIDE
                            ELSE IF someIntersecting THEN INTERSECTING
                            ELSE INSIDE
            /\ lastOp.queried = FirstAnswer(a, OUTSIDE)

\* a union-mode call where a plane answers OUTSIDE after one that straddles,
\* and the last plane is not queried
C6_Witness ==
    /\ lastOp.op = "classify"
    /\ unionFlag[lastOp.c]
    /\ lastOp.answers = <<INTERSECTING, OUTSIDE, INSIDE>>
    /\ lastOp.ret = OUTSIDE
    /\ lastOp.queried = 2

\* C7: get(index) returns the plane at position index when 0 <= index < length
\* and fails with an error, returning nothing, for every other index.
C7_GetFailsOutOfRange ==
    lastOp.op = "get" =>
        IF 0 <= lastOp.arg /\ lastOp.arg < Len(planes[lastOp.c])
        THEN ~lastOp.threw /\ lastOp.ret = planes[lastOp.c][lastOp.arg + 1]
        ELSE lastOp.threw

\* the slots that hold collection c
SlotsHolding(c) == {ok \in Owners \X Keys : slots[ok[1]][ok[2]] = c}

\* every slot that holds c belongs to the one owner of c
HeldByOwnerOnly(c) == \A ok \in SlotsHolding(c) : owner[c] = ok[1]

\* C8: a collection has at most one owner: once set, the owner of a collection
\* never changes, and a setOwner call that would attach an owned collection to
\* a slot that does not hold it fails and leaves the collection's owner as it was.
C8_SingleOwner ==
    [][\A c \in Colls :
          /\ owner[c] # Undefined => owner'[c] = owner[c]
          /\ HeldByOwnerOnly(c)'
          /\ (/\ lastOp'.op = "setOwner"
              /\ lastOp'.c = c
              /\ owner[c] # Undefined
              /\ slots[lastOp'.arg[1]][lastOp'.arg[2]] # c)
             => (lastOp'.threw /\ owner'[c] = owner[c])]_vars

\* an owned collection was offered to another owner and the call failed
C8_Witness ==
    /\ lastOp.op = "setOwner"
    /\ lastOp.threw
    /\ lastOp.c \in Colls
    /\ owner[lastOp.c] # Undefined
    /\ owner[lastOp.c] # lastOp.arg[1]

\* C11: remove with a plane value-equal to no member returns false, raises
\* nothing and leaves the sequence, the indices and callbacks of the planes,
\* the dirty state, the views and the texture as they were.
C11_RemoveOfNonMemberChangesNothing ==
    [][\A c \in colls :
        (/\ lastOp'.op = "remove" /\ lastOp'.c = c
         /\ \A i \in 1..Len(planes[c]) : pVal[planes[c][i]] # pVal[lastOp'.arg])
        => /\ lastOp'.ret = FALSE
           /\ ~lastOp'.threw
           /\ UNCHANGED <<planes, pIndex, pCb, pVal, containsUntrackable,
                          dirtyIndex, multipleDirty, texVars>>]_vars

\* C11 witness: a remove returned false on a collection that holds planes,
\* has a texture and has a dirty plane pending
C11_Witness ==
    /\ lastOp.op = "remove"
    /\ lastOp.ret = FALSE
    /\ Len(planes[lastOp.c]) > 0
    /\ texture[lastOp.c].defined
    /\ dirtyIndex[lastOp.c] # -1

\* what C12 states of source s and target t after s.clone(t): same length,
\* target plane i has index i, the value of source plane i and a callback into
\* t, no plane object is in both sequences, no source plane calls back into t
ClonedInto(s, t) ==
    /\ Len(planes[t]) = Len(planes[s])
    /\ \A i \in 1..Len(planes[t]) :
           /\ pIndex[planes[t][i]] = i - 1
           /\ pVal[planes[t][i]] = pVal[planes[s][i]]
           /\ pCb[planes[t][i]] = t
    /\ Members(s) \cap Members(t) = {}
    /\ \A j \in 1..Len(planes[s]) : pCb[planes[s][j]] # t

\* C12: after source.clone(target), target another collection holding fewer,
\* as many or more planes than the source: the target has the length of the
\* source, target plane i has index i and the value of source plane i, the two
\* sequences share no plane object, every target plane calls back into the
\* target and no source plane does; a mutation of a target plane that follows
\* leaves the source's dirty state as it is, and a mutation of a source plane
\* leaves the target's.
C12_CloneDuplicates ==
    [][\A s \in colls : \A t \in colls \ {s} :
        /\ (lastOp'.op = "clone" /\ lastOp'.arg = s /\ lastOp'.c = t)
           => ClonedInto(s, t)'
        /\ (/\ lastOp.op = "clone" /\ lastOp.arg = s /\ lastOp.c = t
            /\ lastOp'.op = "mutate")
           => \A p \in allocated :
                  pVal'[p] # pVal[p] =>
                      /\ p \in Members(t) =>
                             /\ dirtyIndex'[s] = dirtyIndex[s]
                             /\ multipleDirty'[s] = multipleDirty[s]
                      /\ p \in Members(s) =>
                             /\ dirtyIndex'[t] = dirtyIndex[t]
                             /\ multipleDirty'[t] = multipleDirty[t]]_vars

\* C13: after a remove that returns true, the ClippingPlane taken out of the
\* sequence (the first member value-equal to the argument) has index -1 and no
\* callback, and every ClippingPlane left in the sequence that had a callback
\* still has it; after removeAll every ClippingPlane that was in the sequence
\* has index -1 and no callback.
C13_RemovedPlaneIsDetached ==
    [][\A c \in colls :
        /\ (lastOp'.op = "remove" /\ lastOp'.c = c /\ lastOp'.ret = TRUE)
           => LET out == planes[c][lastOp'.index + 1]
              IN  /\ IsClippingPlane(out) =>
                         (pIndex'[out] = -1 /\ pCb'[out] = Undefined)
                  /\ \A i \in 1..Len(planes'[c]) :
                         LET q == planes'[c][i]
                         IN  (IsClippingPlane(q) /\ pCb[q] # Undefined)
                                 => pCb'[q] = pCb[q]
        /\ (lastOp'.op = "removeAll" /\ lastOp'.c = c)
           => \A q \in Members(c) :
                  IsClippingPlane(q) => (pIndex'[q] = -1 /\ pCb'[q] = Undefined)]_vars

\* the state of the dirty tracker of c: clean, single(i) or multiple
Clean == <<"clean", -1>>
Single(i) == <<"single", i>>
Multiple == <<"multiple", -1>>
DirtyState(c) ==
    IF multipleDirty[c] THEN Multiple
    ELSE IF dirtyIndex[c] = -1 THEN Clean
    ELSE Single(dirtyIndex[c])

\* the state C14 gives for recording index i in state st
Recorded(st, i) ==
    IF st = Multiple THEN Multiple
    ELSE IF st = Clean \/ st = Single(i) THEN Single(i)
    ELSE Multiple

\* C14: a ClippingPlane with a callback that is given another value records
\* its index in the tracker of its collection: clean becomes single(i),
\* single(i) stays, single(j) with j # i becomes multiple, multiple stays.
\* add records the length before the add: from clean the state becomes
\* single(newIndex), from single(j) it becomes multiple, multiple stays.
C14_DirtyTrackerTransitions ==
    [][\A c \in colls :
        /\ lastOp'.op = "mutate" =>
               \A p \in allocated :
                   (pVal'[p] # pVal[p] /\ IsClippingPlane(p) /\ pCb[p] = c)
                       => DirtyState(c)' = Recorded(DirtyState(c), pIndex[p])
        /\ (lastOp'.op = "add" /\ lastOp'.c = c) =>
               LET newIndex == Len(planes[c])
                   st == DirtyState(c)
               IN  /\ Len(planes'[c]) = newIndex + 1
                   /\ st = Clean => DirtyState(c)' = Single(newIndex)
                   /\ st[1] = "single" => DirtyState(c)' = Multiple
                   /\ st = Multiple => DirtyState(c)' = Multiple]_vars

\* C15: every update that returns leaves the tracker clean, and no step other
\* than an update of the collection takes its tracker from single or multiple
\* to clean, or from multiple to single.
C15_OnlyUpdateCleans ==
    [][\A c \in colls :
        IF lastOp'.op = "update" /\ lastOp'.c = c
        THEN ~lastOp'.threw =>
                 (dirtyIndex'[c] = -1 /\ multipleDirty'[c] = FALSE)
        ELSE /\ DirtyState(c) # Clean => DirtyState(c)' # Clean
             /\ DirtyState(c) = Multiple => DirtyState(c)' = Multiple]_vars

\* C15 witness: an update that found a single dirty plane, uploaded its region
\* and left the tracker clean
C15_Witness ==
    /\ lastOp.op = "update"
    /\ lastOp.upload.kind = "partial"
    /\ DirtyState(lastOp.c) = Clean

\* C15, second case: a clone recorded into a target whose tracker was dirty
\* and is multiple now
C15_WitnessClone ==
    /\ lastOp.op = "clone"
    /\ DirtyState(lastOp.c) = Multiple

\* the width and height the planner gives for n units: as many columns as
\* units up to the maximum texture size, at least one, and the rows that
\* takes (for n = 0 the rows come out as 0 / 0, NaN)
PlannedWidth(n) == Max(Min(n, maximumTextureSize), 1)
PlannedHeight(n) ==
    IF n = 0 THEN NaN
    ELSE CHOOSE h \in 1..n :
             /\ h * PlannedWidth(n) >= n
             /\ (h - 1) * PlannedWidth(n) < n

\* C16: an update that allocates a texture, the first one or a reallocation,
\* gives it twice the planned width and the planned height, encodes every
\* plane and uploads the whole texture, whatever the dirty state was.
C16_AllocationForcesFullRefresh ==
    [][\A c \in colls :
        (lastOp'.op = "update" /\ lastOp'.c = c /\ lastOp'.allocatedTexture)
        => /\ texture'[c].defined
           /\ texture'[c].width = 2 * PlannedWidth(PixelsNeeded(c))
           /\ texture'[c].height = PlannedHeight(PixelsNeeded(c))
           /\ FullRefreshOf(lastOp', planes'[c], texture'[c])]_vars

\* C16 witness: an update destroyed the texture of a collection of several
\* planes, allocated another one and encoded every plane
C16_Witness ==
    /\ lastOp.op = "update"
    /\ lastOp.destroyedTexture
    /\ lastOp.allocatedTexture
    /\ sinceUpdate[lastOp.c] = Mutated({})
    /\ lastOp.packed = <<0, Len(planes[lastOp.c])>>
    /\ Len(planes[lastOp.c]) > 1

\* C17: for n >= 0 units and a maximum width m >= 1 the planner returns
\* width = max(min(n, m), 1) and height = max(ceil(n / width), 1) for that
\* width: both integers, at least 1, with width x height >= n.
C17_PlannerResolution ==
    lastOp.op = "plan" =>
        LET n == lastOp.arg[1]
            m == lastOp.arg[2]
            width == Max(Min(n, m), 1)
            height == Max((n + width - 1) \div width, 1)
        IN  /\ lastOp.ret.x = width
            /\ lastOp.ret.y = height
            /\ lastOp.ret.x >= 1
            /\ lastOp.ret.y >= 1
            /\ lastOp.ret.x * lastOp.ret.y >= n

\* the view of the layout in use, the units a plane takes in it and the
\* encoding of plane object p: normal and distance as one unit of four floats,
\* or the oct-encoded normal and the packed distance as two units of four bytes
ViewOf(c) == IF floatingPointTexture THEN float32View[c] ELSE uint8View[c]
UnitsPerPlane == IF floatingPointTexture THEN 1 ELSE 2
Encoding(p) ==
    IF floatingPointTexture THEN <<FloatUnit(pVal[p])>>
    ELSE <<OctUnit(pVal[p]), DistUnit(pVal[p])>>

\* unit j of the view holds part k of the encoding of plane object p
Holds(data, j, p, k) == j <= Len(data) /\ data[j] = Encoding(p)[k]

\* C18 as stated, for views that have room for every plane: an update that
\* packs [start, end) writes the encoding of every plane i of the range at
\* plane i's own offset in the view (unit i, or units 2i and 2i + 1) and
\* leaves the other units as they were, so that after every update that
\* returns the view holds the encoding of plane i at plane i's offset for
\* every i < length.
C18_PackWritesAtOwnOffset ==
    [][\A c \in colls :
        (/\ lastOp'.op = "update" /\ lastOp'.c = c /\ ~lastOp'.threw
         /\ Len(ViewOf(c)'.data) >= Len(planes[c]) * UnitsPerPlane)
        => LET data == ViewOf(c)'.data
               start == lastOp'.packed[1]
               end == lastOp'.packed[2]
           IN  /\ lastOp'.packed # NoPack =>
                      /\ \A i \in start..(end - 1) : \A k \in 1..UnitsPerPlane :
                             Holds(data, i * UnitsPerPlane + k, planes[c][i + 1], k)
                      /\ ~lastOp'.allocatedTexture =>
                             \A j \in 1..Len(data) :
                                 (j <= start * UnitsPerPlane \/ j > end * UnitsPerPlane)
                                     => data[j] = ViewOf(c).data[j]
               /\ \A i \in 0..(Len(planes[c]) - 1) : \A k \in 1..UnitsPerPlane :
                      Holds(data, i * UnitsPerPlane + k, planes[c][i + 1], k)]_vars

\* C18 amended: an update that packs [start, end) writes the encoding of
\* every plane i of the range at offset i - start from the beginning of the
\* view, as far as the view reaches, and leaves every later unit as it was
\* (zero in a view allocated by this update); so after a full update the view
\* holds plane i at plane i's offset for every i it has room for, and after a
\* partial update of plane i it begins with the encoding of plane i.
C18_PackWritesFromTheBeginning ==
    [][\A c \in colls :
        (/\ lastOp'.op = "update" /\ lastOp'.c = c /\ ~lastOp'.threw
         /\ lastOp'.packed # NoPack)
        => LET data == ViewOf(c)'.data
               start == lastOp'.packed[1]
               end == lastOp'.packed[2]
               written == (end - start) * UnitsPerPlane
           IN  /\ ViewOf(c)'.defined
               /\ ~lastOp'.allocatedTexture => Len(data) = Len(ViewOf(c).data)
               /\ \A j \in 1..Len(data) :
                      IF j <= written
                      THEN data[j] =
                               Encoding(planes[c][start + ((j - 1) \div UnitsPerPlane) + 1])
                                   [((j - 1) % UnitsPerPlane) + 1]
                      ELSE data[j] = IF lastOp'.allocatedTexture THEN ZeroUnit
                                     ELSE ViewOf(c).data[j]]_vars

\* C18 witness: a partial update of plane 1 left its encoding at the beginning
\* of the view, in the place of a plane 0 that holds another value
C18_Witness ==
    /\ lastOp.op = "update"
    /\ lastOp.packed = <<1, 2>>
    /\ Len(planes[lastOp.c]) = 2
    /\ pVal[planes[lastOp.c][1]] # pVal[planes[lastOp.c][2]]
    /\ Holds(ViewOf(lastOp.c).data, 1, planes[lastOp.c][2], 1)

\* the texture holds the encoding of plane i of c in the units of plane i
\* (unit i, or units 2i and 2i + 1), for every i < length
TextureHoldsPlanes(c) ==
    \A i \in 1..Len(planes[c]) : \A k \in 1..UnitsPerPlane :
        Holds(texPixels[c], (i - 1) * UnitsPerPlane + k, planes[c][i], k)

\* C19: float layout: after every update that returns, the unit of the
\* texture at linear position i holds normal and distance of the current
\* plane i, for every i < length.
C19_FloatTextureHoldsPlanes ==
    [][\A c \in colls :
        (/\ floatingPointTexture
         /\ lastOp'.op = "update" /\ lastOp'.c = c /\ ~lastOp'.threw)
        => TextureHoldsPlanes(c)']_vars

\* C20: quantized layout, for a texture that was allocated for at least one
\* plane: after every update that returns, the two units of the texture at
\* linear positions 2i and 2i + 1 hold the encoding of the current plane i,
\* for every i < length; a partial update of the single dirty plane i uploads
\* the region of plane i.
C20_QuantizedTextureHoldsPlanes ==
    [][\A c \in colls :
        (/\ ~floatingPointTexture
         /\ lastOp'.op = "update" /\ lastOp'.c = c /\ ~lastOp'.threw
         /\ texture[c]'.height # NaN)
        => /\ TextureHoldsPlanes(c)'
           /\ lastOp'.upload.kind = "partial"
              => lastOp'.upload = PlaneRegion(dirtyIndex[c], texture[c]'.width)]_vars

\* C22: a setOwner that fails because the given collection, not destroyed,
\* already has an owner destroys nothing and leaves owner[key] as it was; a
\* setOwner of the collection that owner[key] already holds destroys and
\* changes nothing.
C22_FailedSetOwnerDestroysNothing ==
    [][\A c \in colls : \A o \in Owners : \A key \in Keys :
        (lastOp'.op = "setOwner" /\ lastOp'.c = c /\ lastOp'.arg = <<o, key>>)
        => /\ (c # slots[o][key] /\ owner[c] # Undefined /\ ~destroyed[c])
              => /\ lastOp'.threw
                 /\ destroyed' = destroyed
                 /\ slots'[o][key] = slots[o][key]
           /\ c = slots[o][key]
              => /\ ~lastOp'.threw
                 /\ UNCHANGED <<ownerVars, texture>>]_vars

\* C26: every texture that update allocates has a width of at most
\* ContextLimits.maximumTextureSize.
C26_AllocatedWidthWithinMaximum ==
    [][\A c \in colls :
        (/\ lastOp'.op = "update" /\ lastOp'.c = c
         /\ lastOp'.allocatedTexture)
        => /\ texture'[c].defined
           /\ texture'[c].width <= maximumTextureSize]_vars

\* C23: after every update that returns, the texture has at least as many
\* units (width x height) as the planes of the collection need in the layout
\* of the host.
C23_CapacityCoversThePlanes ==
    [][\A c \in colls :
        (lastOp'.op = "update" /\ lastOp'.c = c /\ ~lastOp'.threw)
        => LET capacity == JsMul(texture'[c].width, texture'[c].height)
           IN  /\ texture'[c].defined
               /\ capacity # NaN
               /\ capacity >= PixelsNeeded(c)']_vars

\* C24: every partial upload that update requests lies inside the texture:
\* offsetX + width of the region <= width of the texture and offsetY < height
\* of the texture.  Stated for a texture whose height is a number and a dirty
\* index that is the index of a plane of the collection.
C24_PartialUploadInsideTheTexture ==
    [][\A c \in colls :
        (/\ lastOp'.op = "update" /\ lastOp'.c = c
         /\ lastOp'.upload.kind = "partial"
         /\ texture'[c].height # NaN
         /\ dirtyIndex[c] < Len(planes[c]))
        => /\ lastOp'.upload.x + lastOp'.upload.width <= texture'[c].width
           /\ lastOp'.upload.y < texture'[c].height]_vars

\* C25: in every reachable state the texture of a collection is absent or is
\* a texture that was not destroyed.
C25_TextureAbsentOrLive ==
    \A c \in colls : texture[c].defined => ~texture[c].destroyed

\* the units a plane takes in a layout and the encoding of plane object p in it
LayoutUnits(float) == IF float THEN 1 ELSE 2
EncodingIn(float, p) ==
    IF float THEN <<FloatUnit(pVal[p])>>
    ELSE <<OctUnit(pVal[p]), DistUnit(pVal[p])>>

\* C21: an update of a collection that has a texture, which keeps that
\* texture and has planes to encode, encodes them in the layout the texture
\* was allocated with, into the view of that layout, and uploads regions of
\* that layout, whatever the context of the update supports; the layout of
\* the texture stays.  Stated for a texture whose height is a number and a
\* dirty index that is -1 or the index of a plane of the collection.
C21_LayoutFixedWhileTheTextureStays ==
    [][\A c \in colls :
        (/\ lastOp'.op = "update" /\ lastOp'.c = c
         /\ texture[c].defined /\ ~lastOp'.allocatedTexture
         /\ texture[c].height # NaN /\ dirtyIndex[c] < Len(planes[c])
         /\ (lastOp'.threw \/ lastOp'.packed # NoPack))
        => LET float == texture[c].float
               view == IF float THEN float32View'[c] ELSE uint8View'[c]
               n == LayoutUnits(float)
               start == lastOp'.packed[1]
               written == (lastOp'.packed[2] - start) * n
           IN  /\ ~lastOp'.threw
               /\ texture'[c].float = float
               /\ view.defined
               /\ \A j \in 1..Min(written, Len(view.data)) :
                      view.data[j] =
                          EncodingIn(float, planes[c][start + ((j - 1) \div n) + 1])[((j - 1) % n) + 1]
               /\ lastOp'.upload.kind = "partial" => lastOp'.upload.width = n]_vars

=============================================================================
